---- MODULE Spec2Model ----
(***************************************************************************)
(* Relational store (experts, episodes) and vector index of the podcast    *)
(* chatbot backend, with the manager operations that keep them together:   *)
(* EpisodeManager.create_episode / update_episode / delete_episode,        *)
(* ExpertManager.create_expert_with_content, DatabaseService.delete_expert *)
(* and update_expert, the methods of PineconeService called directly, and  *)
(* the chat turn of send_chat_message, with the streaming mode of the chat  *)
(* orchestrator and the URL pipeline of the older EpisodeManager.  Every   *)
(* handler is a sequence of steps,                                         *)
(* one per call to the database or to the vector index, each of which may  *)
(* fail the way the code's try/except blocks anticipate.                   *)
(***************************************************************************)
EXTENDS Integers, Sequences, FiniteSets, TLC

\* ------------------------------------------------------------------------
\* Bounds
\* ------------------------------------------------------------------------
MaxChunks == 2
MaxExperts == 2
MaxEpisodes == 2
MaxNewEpisodes == 1
MaxThreads == 2
\* requests one thread serves in one run, next to those that create an expert
\* (which MaxExperts bounds)
MaxCalls == 1
\* chunks of the model that the match limit of the delete query spans
ChunksPerQuery == 1
\* calls one thread makes to PineconeService directly in one run
MaxServiceCalls == 2
\* chat sessions
MaxSessions == 2
\* longest chat message tried, in units of MessageScale characters
MaxMessageLen == 3
\* tokens the language model emits for one answer at most
MaxTokens == 3
\* episode URLs given for one expert
MaxUrls == 2

\* top_k of the query that PineconeService.delete_episode uses to find the
\* vectors of an episode
DELETE_TOP_K == 10000

\* One chunk of the model stands for ChunkScale consecutive chunks of an
\* episode, written and matched together, so that an episode longer than the
\* match limit of the delete query fits in MaxChunks.
ChunkScale == DELETE_TOP_K \div ChunksPerQuery

DeleteTopK == DELETE_TOP_K \div ChunkScale

\* ------------------------------------------------------------------------
\* Values
\* ------------------------------------------------------------------------
ExpertIds == 1..MaxExperts
EpisodeIds == 1..MaxEpisodes
\* the seeded user, and one who owns nothing
UserIds == {"admin"}
OtherUser == "other"
NoUser == "none"
Threads == 1..MaxThreads

SeqsUpTo(S, n) == UNION {[1..k -> S] : k \in 0..n}

\* expert names, stripped by the route: one that is its own namespace, one
\* that differs from it only in case, and one with a space inside
Names == {<<"a">>, <<"A">>, <<"b", " ", "c">>}

\* titles: missing, whitespace only, or a word
Titles == {<<>>, <<" ">>, <<"t">>}

Blocks == {"p"}
\* contents: missing, whitespace only, or 1..MaxChunks blocks of text
Contents == {<<>>, <<" ">>} \cup {[i \in 1..n |-> b] : n \in 1..MaxChunks, b \in Blocks}

\* str.lower() on one character
Lower(c) == IF c = "A" THEN "a" ELSE c

\* str.replace(" ", "_") on one character
ReplaceSpace(c) == IF c = " " THEN "_" ELSE c

\* name.lower().replace(" ", "_"): the namespace derived from an expert name
Namespace(name) == [i \in DOMAIN name |-> ReplaceSpace(Lower(name[i]))]

RECURSIVE LStrip(_)
LStrip(s) == IF s # <<>> /\ Head(s) = " " THEN LStrip(Tail(s)) ELSE s

RECURSIVE RStrip(_)
RStrip(s) == IF s # <<>> /\ s[Len(s)] = " " THEN RStrip(SubSeq(s, 1, Len(s) - 1)) ELSE s

\* str.strip()
Strip(s) == RStrip(LStrip(s))

\* the request body: a dict with title and content, or nothing
NoData == [present |-> FALSE, title |-> <<>>, content |-> <<>>]
AllDatas == {NoData} \cup [present : {TRUE}, title : Titles, content : Contents]

\* the bodies tried: every valid one, and of the invalid ones those that have
\* one thing wrong
Datas == {d \in AllDatas : d.present =>
             \/ Strip(d.title) # <<>> /\ Strip(d.content) # <<>>
             \/ d.title = <<"t">> /\ d.content = <<>>
             \/ d.title = <<" ">> /\ d.content = <<"p">>}

\* the episodes the create_expert route hands over: title and content
\* stripped and non-empty
ValidEpisodes == {d \in Datas : d.present /\ d.title # <<>> /\ d.content # <<>>
                                /\ Strip(d.title) = d.title /\ Strip(d.content) = d.content}

SessionIds == 1..MaxSessions

NoSession == [exists |-> FALSE, user_id |-> NoUser, expert_id |-> 0, messages |-> <<>>]

UrlEpisodeIds == 1..MaxUrls

\* rows of the tables of the URL pipeline that are not there
NoUrlExpert == [exists |-> FALSE, pinecone_namespace |-> <<>>, processing_status |-> "none"]
NoUrlEpisode == [exists |-> FALSE, processing_status |-> "none"]

NoExpert == [exists |-> FALSE, name |-> <<>>, user_id |-> NoUser]
NoEpisode == [exists |-> FALSE, id |-> 0, expert_id |-> 0, title |-> <<>>, content |-> <<>>]

\* ------------------------------------------------------------------------
\* State
\* ------------------------------------------------------------------------
VARIABLES
    experts,     \* table experts: id -> row
    episodes,    \* table episodes: id -> row
    nextExpert,  \* ids are fresh: the next unused expert id
    nextEpisode, \* the next unused episode id
    index,       \* the vector index: a set of vectors, one per (namespace, id)
    req,         \* per request thread: the call in progress, its locals and its outcome
    calls,       \* per thread: requests received so far, not counting create_expert
    sessions,    \* table chat_sessions with the chat_messages of each: id -> row
    usage,       \* table usage_logs, in the order written
    url_expert,  \* URL pipeline: the row of the expert being built
    url_episodes \* URL pipeline: the episode rows created from URLs: id -> row

vars == <<experts, episodes, nextExpert, nextEpisode, index, req, calls, sessions, usage,
          url_expert, url_episodes>>

chatVars == <<sessions, usage>>

pipelineVars == <<url_expert, url_episodes>>

\* ------------------------------------------------------------------------
\* Vector index
\* ------------------------------------------------------------------------
\* full_content = f"Content: {episode.content}"
FullContent(content) == <<"Content: ">> \o content

\* text_splitter.split_text: the prefix stays with the first block; a
\* whitespace block leaves no chunk of its own
split_text(full) ==
    LET body == SelectSeq(Tail(full), LAMBDA b : b # " ")
    IN  IF body = <<>> THEN << <<Head(full)>> >>
        ELSE [i \in 1..Len(body) |-> IF i = 1 THEN <<Head(full), body[1]>> ELSE <<body[i]>>]

\* ids that count the chunks from one
VectorId_from_one(episode_id, i) == <<episode_id, "_chunk_", i + 1>>

\* f"{episode.id}_chunk_{i}"
VectorId(episode_id, i) == <<episode_id, "_chunk_", i>>

\* the vectors store_episode_content prepares for an episode
Vectors(episode, ns) ==
    LET chunks == split_text(FullContent(episode.content))
    IN  {[ns |-> ns,
          id |-> VectorId(episode.id, i - 1),
          episode_id |-> episode.id,
          episode_title |-> episode.title,
          chunk_index |-> i - 1,
          text |-> chunks[i]] : i \in 1..Len(chunks)}

\* an upsert that adds the vectors next to those already there
upsert_append(idx, vectors) == idx \cup vectors

\* index.upsert(vectors, namespace): a vector with the same id is replaced
upsert(idx, vectors) ==
    {v \in idx : ~\E w \in vectors : w.ns = v.ns /\ w.id = v.id} \cup vectors

\* the vectors of a namespace whose metadata matches filter={"episode_id": ...}
Matching(idx, ns, episode_id) == {v \in idx : v.ns = ns /\ v.episode_id = episode_id}

\* index.query(..., top_k, filter): the ids of at most top_k matching vectors;
\* all scores against the zero vector are equal, so which ones is open
query_filter(idx, ns, episode_id, top_k) ==
    LET ids == {v.id : v \in Matching(idx, ns, episode_id)}
    IN  IF Cardinality(ids) <= top_k THEN {ids}
        ELSE {s \in SUBSET ids : Cardinality(s) = top_k}

\* index.delete(ids, namespace)
delete_ids(idx, ns, ids) == {v \in idx : ~(v.ns = ns /\ v.id \in ids)}


\* ------------------------------------------------------------------------
\* Requests
\* ------------------------------------------------------------------------
\* a thread with no call in progress
Idle == [op |-> "none", pc |-> "idle",
         expert_id |-> 0, episode_id |-> 0, user_id |-> NoUser,
         data |-> NoData, name |-> <<>>, eps |-> <<>>,
         expert |-> NoExpert, episode |-> NoEpisode,
         stored_episodes |-> <<>>, k |-> 0,
         ns |-> <<>>, matches |-> {},
         is_deleted |-> "unset", is_stored |-> "unset",
         status |-> 0, error |-> "", returned |-> FALSE,
         pre_row |-> NoEpisode, pre_synced |-> FALSE,
         query |-> 0, failed |-> FALSE, raised |-> FALSE, result |-> {},
         session_id |-> 0, raw |-> <<>>, message |-> <<>>, hits |-> {}, context |-> {},
         response |-> "none", frames |-> <<>>,
         episode_ids |-> <<>>, processed_count |-> 0, is_processed |-> "unset"]

\* the call returns (jsonify(...), status)
Return(r, status, error) ==
    [r EXCEPT !.pc = "done", !.status = status, !.error = error,
              !.k = 0, !.ns = <<>>, !.user_id = NoUser]

\* the call returns before it has written anything: the response is all
\* that is left of it
Reject(op, status, error) == [Idle EXCEPT !.op = op, !.pc = "done", !.status = status, !.error = error]

\* the thread has no call in progress
Free(t) == req[t].pc \in {"idle", "done"}

CanCall(t) == Free(t) /\ calls[t] < MaxCalls

\* EpisodeManager._validate_data: the error message, "" when the data is valid
validate_data(expert, data) ==
    IF ~expert.exists THEN "Expert not found"
    ELSE IF ~data.present THEN "No data provided"
    ELSE IF Strip(data.title) = <<>> THEN "Episode title is required"
    ELSE IF Strip(data.content) = <<>> THEN "Episode content is required"
    ELSE ""

\* DatabaseService.get_expert_by_id: the row, None when absent or on an exception
get_expert_by_id(expert_id, fault) == IF fault THEN NoExpert ELSE experts[expert_id]

\* an exception in a lookup shows only when there is a row to miss
Faults(row) == IF row.exists THEN BOOLEAN ELSE {FALSE}

\* DatabaseService.get_episode_by_id
get_episode_by_id(episode_id, fault) == IF fault THEN NoEpisode ELSE episodes[episode_id]

\* DatabaseService.create_episode: the new row, None when the commit fails
\* (an exception, or no expert row for the foreign key)
db_create_episode(expert_id, title, content, ok) ==
    IF ok /\ experts[expert_id].exists
    THEN [exists |-> TRUE, id |-> nextEpisode, expert_id |-> expert_id,
          title |-> title, content |-> content]
    ELSE NoEpisode

\* PineconeService.store_episode_content: True when chunking, embedding and
\* the upsert raised nothing; an episode of None raises inside the try
StoreOk(episode, ok) == ok /\ episode.exists

\* a store that upserts chunk by chunk, and has the first chunk in the index
\* when it fails
store_episode_content_by_chunk(idx, episode, db_expert_name, ok) ==
    IF StoreOk(episode, ok)
    THEN upsert(idx, Vectors(episode, Namespace(db_expert_name)))
    ELSE IF episode.exists
    THEN upsert(idx, {v \in Vectors(episode, Namespace(db_expert_name)) : v.chunk_index = 0})
    ELSE idx

\* the index after PineconeService.store_episode_content: the chunks are
\* embedded first and go to the index in one upsert
store_episode_content(idx, episode, db_expert_name, ok) ==
    IF StoreOk(episode, ok)
    THEN upsert(idx, Vectors(episode, Namespace(db_expert_name)))
    ELSE idx

Flag(b) == IF b THEN "true" ELSE "false"

\* ---------------- EpisodeManager.create_episode ----------------
create_episode_validate(t) ==
    /\ CanCall(t)
    /\ \E expert_id \in ExpertIds, data \in Datas :
       \E fault \in Faults(experts[expert_id]) :
        LET expert == get_expert_by_id(expert_id, fault)
            error == validate_data(expert, data)
            r == [Idle EXCEPT !.op = "create_episode", !.expert_id = expert_id,
                              !.data = data, !.expert = expert]
        IN  IF error # ""
            THEN req' = [req EXCEPT ![t] = Reject("create_episode", 400, error)]
            ELSE /\ nextEpisode <= MaxEpisodes
                 /\ req' = [req EXCEPT ![t] = [r EXCEPT !.pc = "ce_db"]]
    /\ UNCHANGED <<experts, episodes, nextExpert, nextEpisode, index>>
    /\ calls' = [calls EXCEPT ![t] = @ + 1]
    /\ UNCHANGED chatVars
    /\ UNCHANGED pipelineVars

create_episode_db(t) ==
    /\ req[t].pc = "ce_db"
    /\ \E ok \in BOOLEAN :
        LET r == req[t]
            episode == db_create_episode(r.expert_id, r.data.title, r.data.content, ok)
        IN  IF episode.exists
            THEN /\ episodes' = [episodes EXCEPT ![episode.id] = episode]
                 /\ nextEpisode' = nextEpisode + 1
                 /\ req' = [req EXCEPT ![t] = [r EXCEPT !.episode = episode,
                                                        !.episode_id = episode.id,
                                                        !.pc = "ce_store"]]
            ELSE /\ req' = [req EXCEPT ![t] = Reject("create_episode", 500, "Failed to create episode")]
                 /\ UNCHANGED <<episodes, nextEpisode>>
    /\ UNCHANGED <<experts, nextExpert, index>>
    /\ UNCHANGED calls
    /\ UNCHANGED chatVars
    /\ UNCHANGED pipelineVars

\* the result of store_episode_content is not looked at
create_episode_store(t) ==
    /\ req[t].pc = "ce_store"
    /\ \E ok \in BOOLEAN :
        LET r == req[t]
        IN  /\ index' = store_episode_content(index, r.episode, r.expert.name, ok)
            /\ req' = [req EXCEPT ![t] =
                         Return([r EXCEPT !.is_stored = Flag(StoreOk(r.episode, ok))], 201, "")]
    /\ UNCHANGED <<experts, episodes, nextExpert, nextEpisode>>
    /\ UNCHANGED calls
    /\ UNCHANGED chatVars
    /\ UNCHANGED pipelineVars

\* ---------------- PineconeService.delete_episode ----------------
\* after_delete with update_episode going on to the store step whatever the
\* delete returned
after_delete_ignore_result(r, is_deleted) ==
    LET r1 == [r EXCEPT !.is_deleted = Flag(is_deleted)]
    IN  IF r.op = "update_episode"
        THEN [r1 EXCEPT !.pc = "ue_store"]
        ELSE IF is_deleted
             THEN [r1 EXCEPT !.pc = "de_db"]
             ELSE Return(r1, 500, "Failed to delete episode from Pinecone")

\* what the caller does with the result of pinecone_service.delete_episode:
\* update_episode goes on to store the new content, delete_episode goes on to
\* delete the row; both return 500 when it is False
after_delete(r, is_deleted) ==
    LET r1 == [r EXCEPT !.is_deleted = Flag(is_deleted)]
    IN  IF r.op = "update_episode"
        THEN IF is_deleted
             THEN [r1 EXCEPT !.pc = "ue_store"]
             ELSE Return(r1, 500, "Failed to delete old episode content from Pinecone")
        ELSE IF is_deleted
             THEN [r1 EXCEPT !.pc = "de_db"]
             ELSE Return(r1, 500, "Failed to delete episode from Pinecone")

\* index.query with filter={"episode_id": episode_id} in the given namespace;
\* with no match there is nothing to delete and the result is True
pinecone_delete_episode_query(t) ==
    /\ req[t].pc = "pc_query"
    /\ \E ok \in BOOLEAN :
        LET r == req[t]
        IN  IF ~ok
            THEN req' = [req EXCEPT ![t] = after_delete(r, FALSE)]
            ELSE \E ids \in query_filter(index, r.ns, r.episode_id, DeleteTopK) :
                    IF ids = {}
                    THEN req' = [req EXCEPT ![t] = after_delete(r, TRUE)]
                    ELSE req' = [req EXCEPT ![t] = [r EXCEPT !.matches = ids, !.pc = "pc_delete"]]
    /\ UNCHANGED <<experts, episodes, nextExpert, nextEpisode, index>>
    /\ UNCHANGED calls
    /\ UNCHANGED chatVars
    /\ UNCHANGED pipelineVars

\* index.delete(ids=vector_ids, namespace=namespace)
pinecone_delete_episode_delete(t) ==
    /\ req[t].pc = "pc_delete"
    /\ \E ok \in BOOLEAN :
        LET r == req[t]
        IN  /\ index' = IF ok THEN delete_ids(index, r.ns, r.matches) ELSE index
            /\ req' = [req EXCEPT ![t] = after_delete(r, ok)]
    /\ UNCHANGED <<experts, episodes, nextExpert, nextEpisode>>
    /\ UNCHANGED calls
    /\ UNCHANGED chatVars
    /\ UNCHANGED pipelineVars

\* ---------------- EpisodeManager.update_episode ----------------
\* the namespace of the expert that owns an episode row
OwnerNamespace(row) == Namespace(experts[row.expert_id].name)

\* the index holds, for this episode row and in its owner's namespace,
\* exactly the vectors of the row's title and content
Synced(idx, row) ==
    Matching(idx, OwnerNamespace(row), row.id) = Vectors(row, OwnerNamespace(row))

\* update_episode_validate writing the title and content to the row before
\* it has validated them
update_episode_validate_write_first(t) ==
    /\ CanCall(t)
    /\ \E expert_id \in ExpertIds, episode_id \in EpisodeIds, data \in Datas :
       \E fault \in Faults(experts[expert_id]) :
        LET db_expert == get_expert_by_id(expert_id, fault)
            error == validate_data(db_expert, data)
            old == episodes[episode_id]
            r == [Idle EXCEPT !.op = "update_episode", !.expert_id = expert_id,
                              !.episode_id = episode_id, !.data = data,
                              !.expert = db_expert,
                              !.pre_row = old,
                              !.pre_synced = (old.exists /\ Synced(index, old))]
        IN  /\ episodes' = IF data.present /\ old.exists
                            THEN [episodes EXCEPT ![episode_id] =
                                     [old EXCEPT !.title = data.title, !.content = data.content]]
                            ELSE episodes
            /\ IF error # ""
               THEN req' = [req EXCEPT ![t] = Reject("update_episode", 400, error)]
               ELSE req' = [req EXCEPT ![t] = [r EXCEPT !.pc = "ue_db"]]
    /\ UNCHANGED <<experts, nextExpert, nextEpisode, index>>
    /\ calls' = [calls EXCEPT ![t] = @ + 1]
    /\ UNCHANGED chatVars
    /\ UNCHANGED pipelineVars

update_episode_validate(t) ==
    /\ CanCall(t)
    /\ \E expert_id \in ExpertIds, episode_id \in EpisodeIds, data \in Datas :
       \E fault \in Faults(experts[expert_id]) :
        LET db_expert == get_expert_by_id(expert_id, fault)
            error == validate_data(db_expert, data)
            r == [Idle EXCEPT !.op = "update_episode", !.expert_id = expert_id,
                              !.episode_id = episode_id, !.data = data,
                              !.expert = db_expert,
                              !.pre_row = episodes[episode_id],
                              !.pre_synced = (episodes[episode_id].exists
                                              /\ Synced(index, episodes[episode_id]))]
        IN  IF error # ""
            THEN req' = [req EXCEPT ![t] = Reject("update_episode", 400, error)]
            ELSE req' = [req EXCEPT ![t] = [r EXCEPT !.pc = "ue_db"]]
    /\ UNCHANGED <<experts, episodes, nextExpert, nextEpisode, index>>
    /\ calls' = [calls EXCEPT ![t] = @ + 1]
    /\ UNCHANGED chatVars
    /\ UNCHANGED pipelineVars

\* DatabaseService.update_episode(episode_id, title, content): the row is
\* looked up by episode_id alone; None when absent or when the commit fails.
\* The old vectors are then looked for under db_expert.name as it is.
update_episode_db(t) ==
    /\ req[t].pc = "ue_db"
    /\ \E ok \in BOOLEAN :
        LET r == req[t]
            old == episodes[r.episode_id]
            episode == [old EXCEPT !.title = r.data.title, !.content = r.data.content]
        IN  IF ok /\ old.exists
            THEN /\ episodes' = [episodes EXCEPT ![r.episode_id] = episode]
                 /\ req' = [req EXCEPT ![t] = [r EXCEPT !.episode = episode,
                                                        !.ns = r.expert.name,
                                                        !.pc = "pc_query"]]
            ELSE /\ req' = [req EXCEPT ![t] = Reject("update_episode", 500, "Failed to update episode in database")]
                 /\ UNCHANGED episodes
    /\ UNCHANGED <<experts, nextExpert, nextEpisode, index>>
    /\ UNCHANGED calls
    /\ UNCHANGED chatVars
    /\ UNCHANGED pipelineVars

\* update_episode_store answering 200 whatever store_episode_content returned,
\* the way create_episode does
update_episode_store_ignore_result(t) ==
    /\ req[t].pc = "ue_store"
    /\ \E ok \in BOOLEAN :
        LET r == req[t]
            r1 == [r EXCEPT !.is_stored = Flag(StoreOk(r.episode, ok))]
        IN  /\ index' = store_episode_content(index, r.episode, r.expert.name, ok)
            /\ req' = [req EXCEPT ![t] = Return(r1, 200, "")]
    /\ UNCHANGED <<experts, episodes, nextExpert, nextEpisode>>
    /\ UNCHANGED calls
    /\ UNCHANGED chatVars
    /\ UNCHANGED pipelineVars

update_episode_store(t) ==
    /\ req[t].pc = "ue_store"
    /\ \E ok \in BOOLEAN :
        LET r == req[t]
            is_stored == StoreOk(r.episode, ok)
            r1 == [r EXCEPT !.is_stored = Flag(is_stored)]
        IN  /\ index' = store_episode_content(index, r.episode, r.expert.name, ok)
            /\ req' = [req EXCEPT ![t] =
                         IF is_stored THEN Return(r1, 200, "")
                         ELSE Return(r1, 500, "Failed to store updated episode content in Pinecone")]
    /\ UNCHANGED <<experts, episodes, nextExpert, nextEpisode>>
    /\ UNCHANGED calls
    /\ UNCHANGED chatVars
    /\ UNCHANGED pipelineVars

\* ---------------- EpisodeManager.delete_episode ----------------
\* the expert and the episode are looked up separately; the vectors are
\* looked for under the namespace derived from the expert's name
delete_episode_check(t) ==
    /\ CanCall(t)
    /\ \E expert_id \in ExpertIds, episode_id \in EpisodeIds :
       \E fault1 \in Faults(experts[expert_id]), fault2 \in Faults(episodes[episode_id]) :
        LET expert == get_expert_by_id(expert_id, fault1)
            episode == get_episode_by_id(episode_id, fault2)
            r == [Idle EXCEPT !.op = "delete_episode", !.expert_id = expert_id,
                              !.episode_id = episode_id, !.expert = expert,
                              !.episode = episode,
                              !.pre_row = episodes[episode_id]]
        IN  IF ~expert.exists
            THEN req' = [req EXCEPT ![t] = Reject("delete_episode", 404, "Expert not found")]
            ELSE IF ~episode.exists
            THEN req' = [req EXCEPT ![t] = Reject("delete_episode", 404, "Episode not found")]
            ELSE req' = [req EXCEPT ![t] = [r EXCEPT !.ns = Namespace(expert.name),
                                                     !.pc = "pc_query"]]
    /\ UNCHANGED <<experts, episodes, nextExpert, nextEpisode, index>>
    /\ calls' = [calls EXCEPT ![t] = @ + 1]
    /\ UNCHANGED chatVars
    /\ UNCHANGED pipelineVars

\* delete_episode_db answering 200 whatever DatabaseService.delete_episode
\* returned
delete_episode_db_ignore_result(t) ==
    /\ req[t].pc = "de_db"
    /\ \E ok \in BOOLEAN :
        LET r == req[t]
        IN  /\ episodes' = IF ok /\ episodes[r.episode_id].exists
                            THEN [episodes EXCEPT ![r.episode_id] = NoEpisode]
                            ELSE episodes
            /\ req' = [req EXCEPT ![t] = Return(r, 200, "")]
    /\ UNCHANGED <<experts, nextExpert, nextEpisode, index>>
    /\ UNCHANGED calls
    /\ UNCHANGED chatVars
    /\ UNCHANGED pipelineVars

\* DatabaseService.delete_episode
delete_episode_db(t) ==
    /\ req[t].pc = "de_db"
    /\ \E ok \in BOOLEAN :
        LET r == req[t]
        IN  IF ok /\ episodes[r.episode_id].exists
            THEN /\ episodes' = [episodes EXCEPT ![r.episode_id] = NoEpisode]
                 /\ req' = [req EXCEPT ![t] = Return(r, 200, "")]
            ELSE /\ req' = [req EXCEPT ![t] = Return(r, 500, "Failed to delete episode from database")]
                 /\ UNCHANGED episodes
    /\ UNCHANGED <<experts, nextExpert, nextEpisode, index>>
    /\ UNCHANGED calls
    /\ UNCHANGED chatVars
    /\ UNCHANGED pipelineVars

\* ---------------- ExpertManager.create_expert_with_content ----------------
\* DatabaseService.create_expert: experts.name is unique, a second row of the
\* same name raises IntegrityError and the result is None
create_expert_ok(expert_name, ok) ==
    ok /\ ~\E x \in ExpertIds : experts[x].exists /\ experts[x].name = expert_name

\* the call and its first statement, db_service.create_expert; the route
\* create_expert answers 500 when the manager returns None
create_expert_with_content_db(t) ==
    /\ Free(t)
    /\ nextExpert <= MaxExperts
    /\ \E user_id \in UserIds, expert_name \in Names, ok \in BOOLEAN,
          eps \in SeqsUpTo(ValidEpisodes, MaxNewEpisodes) \ {<<>>} :
        LET db_expert == [exists |-> TRUE, name |-> expert_name, user_id |-> user_id]
            r == [Idle EXCEPT !.op = "create_expert_with_content", !.user_id = user_id,
                              !.name = expert_name, !.eps = eps]
        IN  /\ nextEpisode + Len(eps) - 1 <= MaxEpisodes
            /\ IF create_expert_ok(expert_name, ok)
               THEN /\ experts' = [experts EXCEPT ![nextExpert] = db_expert]
                    /\ nextExpert' = nextExpert + 1
                    /\ req' = [req EXCEPT ![t] = [r EXCEPT !.expert = db_expert,
                                                           !.expert_id = nextExpert,
                                                           !.k = 1, !.pc = "cx_episode"]]
               ELSE /\ req' = [req EXCEPT ![t] = Reject("create_expert_with_content", 500, "Failed to create expert")]
                    /\ UNCHANGED <<experts, nextExpert>>
    /\ UNCHANGED <<episodes, nextEpisode, index>>
    /\ UNCHANGED calls
    /\ UNCHANGED chatVars
    /\ UNCHANGED pipelineVars

\* one turn of the loop over episodes: db_service.create_episode, whose
\* result (None on failure) is appended to stored_episodes as it is
create_expert_with_content_episode(t) ==
    /\ req[t].pc = "cx_episode"
    /\ \E ok \in BOOLEAN :
        LET r == req[t]
            episode_data == r.eps[r.k]
            db_episode == db_create_episode(r.expert_id, episode_data.title, episode_data.content, ok)
            r1 == [r EXCEPT !.stored_episodes = Append(r.stored_episodes, db_episode)]
        IN  /\ IF db_episode.exists
               THEN /\ episodes' = [episodes EXCEPT ![db_episode.id] = db_episode]
                    /\ nextEpisode' = nextEpisode + 1
               ELSE UNCHANGED <<episodes, nextEpisode>>
            /\ req' = [req EXCEPT ![t] =
                         IF r.k < Len(r.eps) THEN [r1 EXCEPT !.k = r.k + 1]
                         ELSE [r1 EXCEPT !.k = 1, !.pc = "cx_store"]]
    /\ UNCHANGED <<experts, nextExpert, index>>
    /\ UNCHANGED calls
    /\ UNCHANGED chatVars
    /\ UNCHANGED pipelineVars

\* one turn of the loop of _store_expert_content_in_pinecone; the result of
\* store_episode_content is dropped, and after the last turn the manager
\* returns db_expert, which the route answers with 201
create_expert_with_content_store(t) ==
    /\ req[t].pc = "cx_store"
    /\ \E ok \in BOOLEAN :
        LET r == req[t]
            db_episode == r.stored_episodes[r.k]
        IN  /\ index' = store_episode_content(index, db_episode, r.expert.name, ok)
            /\ req' = [req EXCEPT ![t] =
                         IF r.k < Len(r.stored_episodes) THEN [r EXCEPT !.k = r.k + 1]
                         ELSE Return([r EXCEPT !.returned = TRUE], 201, "")]
    /\ UNCHANGED <<experts, episodes, nextExpert, nextEpisode>>
    /\ UNCHANGED calls
    /\ UNCHANGED chatVars
    /\ UNCHANGED pipelineVars

\* ---------------- DatabaseService.delete_expert ----------------
\* relationship("Episode", cascade="all, delete-orphan"): the episodes of a
\* deleted expert go with it
Cascade(expert_id) ==
    [e \in EpisodeIds |-> IF episodes[e].exists /\ episodes[e].expert_id = expert_id
                          THEN NoEpisode ELSE episodes[e]]

\* the row is looked up by id and owner and deleted; the vector index is
\* not touched
delete_expert(t) ==
    /\ CanCall(t)
    /\ \E expert_id \in ExpertIds, user_id \in UserIds \cup {OtherUser}, ok \in BOOLEAN :
        LET expert == experts[expert_id]
            r == [Idle EXCEPT !.op = "delete_expert", !.expert_id = expert_id,
                              !.user_id = user_id, !.expert = expert]
        IN  IF ok /\ expert.exists /\ expert.user_id = user_id
            THEN /\ experts' = [experts EXCEPT ![expert_id] = NoExpert]
                 /\ episodes' = Cascade(expert_id)
                 /\ req' = [req EXCEPT ![t] = Return([r EXCEPT !.returned = TRUE], 0, "")]
            ELSE /\ req' = [req EXCEPT ![t] = Reject("delete_expert", 0, "")]
                 /\ UNCHANGED <<experts, episodes>>
    /\ UNCHANGED <<nextExpert, nextEpisode, index>>
    /\ calls' = [calls EXCEPT ![t] = @ + 1]
    /\ UNCHANGED chatVars
    /\ UNCHANGED pipelineVars

\* ---------------- DatabaseService.update_expert ----------------
\* the commit of a new name: experts.name is unique, a name another row has
\* raises and the result is None
update_expert_ok(expert_id, name, ok) ==
    /\ ok
    /\ experts[expert_id].exists
    /\ ~\E x \in ExpertIds \ {expert_id} : experts[x].exists /\ experts[x].name = name

\* an update_expert that takes the expert's vectors along to the namespace
\* of the new name
update_expert_migrate(t) ==
    /\ CanCall(t)
    /\ \E expert_id \in ExpertIds, name \in Names, ok \in BOOLEAN :
        LET expert == experts[expert_id]
            r == [Idle EXCEPT !.op = "update_expert", !.expert_id = expert_id,
                              !.name = name, !.expert = expert]
        IN  IF update_expert_ok(expert_id, name, ok)
            THEN /\ experts' = [experts EXCEPT ![expert_id] = [expert EXCEPT !.name = name]]
                 /\ index' = {IF v.ns = Namespace(expert.name)
                               THEN [v EXCEPT !.ns = Namespace(name)] ELSE v : v \in index}
                 /\ req' = [req EXCEPT ![t] = Return([r EXCEPT !.returned = TRUE], 0, "")]
            ELSE /\ req' = [req EXCEPT ![t] = Reject("update_expert", 0, "")]
                 /\ UNCHANGED <<experts, index>>
    /\ UNCHANGED <<episodes, nextExpert, nextEpisode>>
    /\ calls' = [calls EXCEPT ![t] = @ + 1]
    /\ UNCHANGED chatVars
    /\ UNCHANGED pipelineVars

\* DatabaseService.update_expert(expert_id, name=...): the row is looked up,
\* the name set and committed; the vector index is not touched
update_expert(t) ==
    /\ CanCall(t)
    /\ \E expert_id \in ExpertIds, name \in Names, ok \in BOOLEAN :
        LET expert == experts[expert_id]
            r == [Idle EXCEPT !.op = "update_expert", !.expert_id = expert_id,
                              !.name = name, !.expert = expert]
        IN  IF update_expert_ok(expert_id, name, ok)
            THEN /\ experts' = [experts EXCEPT ![expert_id] = [expert EXCEPT !.name = name]]
                 /\ req' = [req EXCEPT ![t] = Return([r EXCEPT !.returned = TRUE], 0, "")]
            ELSE /\ req' = [req EXCEPT ![t] = Reject("update_expert", 0, "")]
                 /\ UNCHANGED experts
    /\ UNCHANGED <<episodes, nextExpert, nextEpisode, index>>
    /\ calls' = [calls EXCEPT ![t] = @ + 1]
    /\ UNCHANGED chatVars
    /\ UNCHANGED pipelineVars

\* ------------------------------------------------------------------------
\* PineconeService called directly
\* ------------------------------------------------------------------------
\* Episode objects handed to store_episode_content: any id, two titles, any
\* content that chunks
EpisodeObjects ==
    {[exists |-> TRUE, id |-> id, expert_id |-> 1, title |-> title, content |-> d.content] :
        id \in EpisodeIds, title \in {<<"t">>, <<"u">>}, d \in ValidEpisodes}

\* what callers pass for a namespace: an expert name, or the namespace
\* derived from it
NamespaceArgs == Names \cup {Namespace(name) : name \in Names}

CanCallService(t) == Free(t) /\ calls[t] < MaxServiceCalls

\* no two vectors of the index share namespace and id
OneVectorPerId(idx) ==
    \A v, w \in idx : (v.ns = w.ns /\ v.id = w.id) => v = w

\* PineconeService.store_episode_content(episode, db_expert_name)
call_store_episode_content(t) ==
    /\ CanCallService(t)
    /\ \E episode \in EpisodeObjects, db_expert_name \in Names, ok \in BOOLEAN :
        LET r == [Idle EXCEPT !.op = "store_episode_content", !.episode = episode,
                              !.episode_id = episode.id, !.name = db_expert_name,
                              !.pre_synced = (Vectors(episode, Namespace(db_expert_name)) \subseteq index),
                              !.is_stored = Flag(StoreOk(episode, ok)),
                              !.returned = TRUE, !.pc = "done"]
        IN  /\ index' = store_episode_content(index, episode, db_expert_name, ok)
            /\ req' = [req EXCEPT ![t] =
                         IF StoreOk(episode, ok) THEN r
                         ELSE [Idle EXCEPT !.op = "store_episode_content", !.is_stored = "false",
                                           !.returned = TRUE, !.pc = "done"]]
    /\ calls' = [calls EXCEPT ![t] = @ + 1]
    /\ UNCHANGED chatVars
    /\ UNCHANGED pipelineVars
    /\ UNCHANGED <<experts, episodes, nextExpert, nextEpisode>>

\* index.delete(delete_all=True, namespace=namespace) with the namespace as
\* it was passed
delete_namespace_raw(idx, namespace, ok) ==
    IF ok THEN {v \in idx : v.ns # namespace} ELSE idx

\* the index after PineconeService.delete_namespace(namespace):
\* index.delete(delete_all=True, namespace=namespace.lower().replace(" ", "_"))
delete_namespace(idx, namespace, ok) ==
    IF ok THEN {v \in idx : v.ns # Namespace(namespace)} ELSE idx

\* PineconeService.delete_namespace(namespace): True unless the delete raised
call_delete_namespace(t) ==
    /\ CanCallService(t)
    /\ \E namespace \in NamespaceArgs, ok \in BOOLEAN :
        LET r == [Idle EXCEPT !.op = "delete_namespace", !.name = namespace,
                              !.ns = Namespace(namespace),
                              !.matches = {v.id : v \in {w \in index : w.ns = Namespace(namespace)}},
                              !.is_deleted = Flag(ok),
                              !.returned = TRUE, !.pc = "done"]
        IN  /\ index' = delete_namespace(index, namespace, ok)
            /\ req' = [req EXCEPT ![t] =
                         IF ok THEN r
                         ELSE [Idle EXCEPT !.op = "delete_namespace", !.is_deleted = "false",
                                           !.returned = TRUE, !.pc = "done"]]
    /\ calls' = [calls EXCEPT ![t] = @ + 1]
    /\ UNCHANGED chatVars
    /\ UNCHANGED pipelineVars
    /\ UNCHANGED <<experts, episodes, nextExpert, nextEpisode>>

\* the attributes class MyConfig gives the vector index; it has no
\* PINECONE_TOP_K
MyConfig ==
    [PINECONE_INDEX_NAME |-> "podcast-chatbot",
     PINECONE_DIMENSION |-> 3072,
     PINECONE_METRIC |-> "cosine"]

\* similarity scores, in tenths
Scores == {3, 6, 7, 9}

\* a query is the title of an episode, named here by the episode's id
Queries == EpisodeIds

\* what the embedding model may give a query against the vectors of a
\* namespace: the chunks of the episode the query is about score highest
ScoresFor(query, vs) ==
    {score \in [vs -> Scores] : \A v \in vs : v.episode_id = query => score[v] = 9}

\* index.query(vector, top_k, namespace): the top_k vectors of the namespace
\* by score, in any order among equals
index_query(idx, namespace, top_k, score) ==
    LET vs == {v \in idx : v.ns = namespace}
        n == IF Cardinality(vs) < top_k THEN Cardinality(vs) ELSE top_k
    IN  {ms \in SUBSET vs : /\ Cardinality(ms) = n
                             /\ \A m \in ms, v \in vs \ ms : score[m] >= score[v]}

\* the relevant_chunks built from results.matches
relevant_chunks(ms, score) ==
    {[text |-> m.text, score |-> score[m], episode_title |-> m.episode_title,
      episode_id |-> m.episode_id, chunk_index |-> m.chunk_index] : m \in ms}

\* an exception in query_knowledge left to reach the caller
query_knowledge_reraise == [raised |-> TRUE, result |-> {}]

\* except Exception in query_knowledge: the error is logged and [] returned
query_knowledge_except == [raised |-> FALSE, result |-> {}]

\* PineconeService.query_knowledge(query, namespace): embed the query, ask
\* the index for the top self.config.PINECONE_TOP_K matches of the namespace
\* as it was passed; reading the attribute MyConfig lacks raises inside the try
call_query_knowledge(t) ==
    /\ CanCallService(t)
    /\ \E query \in Queries, namespace \in NamespaceArgs, ok \in BOOLEAN :
        LET r == [Idle EXCEPT !.op = "query_knowledge", !.query = query,
                              !.ns = namespace, !.failed = ~ok,
                              !.returned = TRUE, !.pc = "done"]
            vs == {v \in index : v.ns = namespace}
        IN  IF ~ok \/ "PINECONE_TOP_K" \notin DOMAIN MyConfig
            THEN req' = [req EXCEPT ![t] = [r EXCEPT !.raised = query_knowledge_except.raised,
                                                     !.returned = ~query_knowledge_except.raised,
                                                     !.result = query_knowledge_except.result]]
            ELSE \E score \in ScoresFor(query, vs) :
                 \E ms \in index_query(index, namespace, MyConfig.PINECONE_TOP_K, score) :
                    req' = [req EXCEPT ![t] = [r EXCEPT !.result = relevant_chunks(ms, score)]]
    /\ calls' = [calls EXCEPT ![t] = @ + 1]
    /\ UNCHANGED chatVars
    /\ UNCHANGED pipelineVars
    /\ UNCHANGED <<experts, episodes, nextExpert, nextEpisode, index>>

\* ------------------------------------------------------------------------
\* Chat turn: POST /api/chat/sessions/<session_id>/messages
\* ------------------------------------------------------------------------
\* value.strip()[:1000] in validate_json
SANITIZE_LENGTH == 1000

\* len(message) > 2000 in send_chat_message
MESSAGE_MAX_LENGTH == 2000

\* max_chunks of get_relevant_context, the top_k of its query
MAX_CHUNKS == 5

\* the score a chunk has to exceed to enter the context, in tenths
SCORE_THRESHOLD == 7

\* one element of a message stands for MessageScale characters, all blank
\* (" ") or none blank ("m")
MessageScale == SANITIZE_LENGTH

Messages == SeqsUpTo({" ", "m"}, MaxMessageLen)

\* the request: not JSON, JSON with an empty body, or a body with a message
\* field (an empty message is the field left out)
Bodies ==
    {[is_json |-> FALSE, present |-> FALSE, message |-> <<>>],
     [is_json |-> TRUE, present |-> FALSE, message |-> <<>>]}
    \cup [is_json : {TRUE}, present : {TRUE}, message : Messages]

\* the checks of validate_json("message"), made on the body as received:
\* the error of the 400 response, "" when the body passes
validate_json(body) ==
    IF ~body.is_json THEN "Content-Type must be application/json"
    ELSE IF ~body.present THEN "Request body required"
    ELSE IF body.message = <<>> THEN "Missing required fields: message"
    ELSE ""

\* data[key] = value.strip()[:1000], done after the checks
sanitize(value) ==
    LET stripped == Strip(value)
        n == SANITIZE_LENGTH \div MessageScale
    IN  IF Len(stripped) > n THEN SubSeq(stripped, 1, n) ELSE stripped

\* len(message) > 2000
TooLong(message) == Len(message) * MessageScale > MESSAGE_MAX_LENGTH

\* chat_manager.get_session: the row of the session, None when there is
\* none or the query fails
get_session(session_id, fault) == IF fault THEN NoSession ELSE sessions[session_id]

\* db_service.add_chat_message: one more message on the session, or nothing
\* after a rollback
add_chat_message(ss, session_id, role, content, ok) ==
    IF ok THEN [ss EXCEPT ![session_id].messages = Append(@, [role |-> role, content |-> content])]
    ELSE ss

\* db_service.log_usage: one more row, or nothing when the write fails
log_usage(us, user_id, action_type, session_id, ok) ==
    IF ok THEN Append(us, [user_id |-> user_id, action_type |-> action_type,
                           session_id |-> session_id])
    ELSE us

\* the relevant_chunks of the manager's query_knowledge with every score
\* taken as the highest
manager_relevant_chunks_unscored(ms, score) ==
    {[text |-> m.text, score |-> 9, episode_id |-> m.episode_id, id |-> m.id] : m \in ms}

\* the relevant_chunks PineconeManager.query_knowledge builds from
\* results.matches
manager_relevant_chunks(ms, score) ==
    {[text |-> m.text, score |-> score[m], episode_id |-> m.episode_id, id |-> m.id] : m \in ms}

\* the chunks whose text get_relevant_context puts in the context
get_relevant_context(relevant_chunks_, score_threshold) ==
    {chunk \in relevant_chunks_ : chunk.score > score_threshold}

\* the namespace get_session finds for the session: that of its expert, none
\* when the expert is not in the table
SessionNamespace(row) ==
    IF row.expert_id \in ExpertIds /\ experts[row.expert_id].exists
    THEN Namespace(experts[row.expert_id].name)
    ELSE <<>>

\* validate_json, then the session and length checks of send_chat_message
send_chat_message_validate(t) ==
    /\ CanCall(t)
    /\ \E session_id \in SessionIds, user_id \in UserIds \cup {OtherUser}, body \in Bodies :
       \E fault \in Faults(sessions[session_id]) :
        LET error == validate_json(body)
            message == sanitize(body.message)
            session_data == get_session(session_id, fault)
            rejected(status, e) ==
                [Reject("send_chat_message", status, e) EXCEPT
                    !.session_id = session_id, !.user_id = user_id,
                    !.raw = body.message, !.message = message]
        IN  req' = [req EXCEPT ![t] =
                IF error # "" THEN rejected(400, error)
                ELSE IF ~session_data.exists \/ session_data.user_id # user_id
                THEN rejected(404, "Session not found or access denied")
                ELSE IF TooLong(message) THEN rejected(400, "Message too long")
                ELSE [Idle EXCEPT !.op = "send_chat_message", !.pc = "chat_user",
                                  !.session_id = session_id, !.user_id = user_id,
                                  !.raw = body.message, !.message = message]]
    /\ calls' = [calls EXCEPT ![t] = @ + 1]
    /\ UNCHANGED <<experts, episodes, nextExpert, nextEpisode, index, sessions, usage>>
    /\ UNCHANGED pipelineVars

\* chat_manager.add_message(session_id, "user", message)
send_chat_message_user(t) ==
    /\ req[t].pc = "chat_user"
    /\ \E ok \in BOOLEAN :
        sessions' = add_chat_message(sessions, req[t].session_id, "user", req[t].message, ok)
    \* the body as it was received is of no more use
    /\ req' = [req EXCEPT ![t] = [req[t] EXCEPT !.pc = "chat_generate", !.raw = <<>>]]
    /\ UNCHANGED <<experts, episodes, nextExpert, nextEpisode, index, calls, usage>>
    /\ UNCHANGED pipelineVars

\* what generate_response gives the handler: the answer, or the provider's
\* error raised
generate_response(ok) ==
    [raised |-> ~ok, response |-> IF ok THEN "generated" ELSE "failed"]

\* a handler that takes whatever generate_response left for the answer
after_generate_swallow(r, generated) ==
    [r EXCEPT !.response = generated.response, !.pc = "chat_assistant"]

\* response = chat_manager.generate_response(...) in the handler's try: an
\* exception goes to except Exception, which answers 500 with success false
after_generate(r, generated) ==
    IF generated.raised
    THEN Return([r EXCEPT !.response = generated.response, !.hits = {}, !.result = {},
                          !.context = {}],
                500, "Internal server error")
    ELSE [r EXCEPT !.response = generated.response, !.pc = "chat_assistant"]

\* response = chat_manager.generate_response(session_id, message): the
\* context is the text of the matches of the expert's namespace that pass the
\* threshold (no context when the query fails), and the answer is built from it
send_chat_message_generate(t) ==
    /\ req[t].pc = "chat_generate"
    /\ \E ok_query \in BOOLEAN, ok \in BOOLEAN :
        LET namespace == SessionNamespace(sessions[req[t].session_id])
            vs == {v \in index : v.ns = namespace}
        IN  \E score \in [vs -> Scores] :
            \E ms \in (IF ok_query THEN index_query(index, namespace, MAX_CHUNKS, score)
                       ELSE {{}}) :
                LET relevant_chunks_ == manager_relevant_chunks(ms, score)
                    r == [req[t] EXCEPT
                            !.ns = namespace,
                            !.hits = {[id |-> m.id, score |-> score[m]] : m \in ms},
                            !.result = relevant_chunks_,
                            !.context = get_relevant_context(relevant_chunks_, SCORE_THRESHOLD)]
                IN  \* the scores matter only through the matches
                    /\ ms # {} \/ score = [v \in vs |-> 9]
                    /\ req' = [req EXCEPT ![t] = after_generate(r, generate_response(ok))]
    /\ UNCHANGED <<experts, episodes, nextExpert, nextEpisode, index, calls, sessions, usage>>
    /\ UNCHANGED pipelineVars

\* chat_manager.add_message(session_id, "assistant", response)
send_chat_message_assistant(t) ==
    /\ req[t].pc = "chat_assistant"
    /\ \E ok \in BOOLEAN :
        sessions' = add_chat_message(sessions, req[t].session_id, "assistant", <<"r">>, ok)
    /\ req' = [req EXCEPT ![t].pc = "chat_log"]
    /\ UNCHANGED <<experts, episodes, nextExpert, nextEpisode, index, calls, usage>>
    /\ UNCHANGED pipelineVars

\* db_service.log_usage(action_type="chat_message"), then the 200 response
send_chat_message_log(t) ==
    /\ req[t].pc = "chat_log"
    /\ \E ok \in BOOLEAN :
        usage' = log_usage(usage, req[t].user_id, "chat_message", req[t].session_id, ok)
    \* the answer is all that is left of the call
    /\ req' = [req EXCEPT ![t] = [req[t] EXCEPT !.pc = "done", !.status = 200,
                                                !.returned = TRUE, !.hits = {},
                                                !.result = {}, !.context = {}]]
    /\ UNCHANGED <<experts, episodes, nextExpert, nextEpisode, index, calls, sessions>>
    /\ UNCHANGED pipelineVars

\* ------------------------------------------------------------------------
\* Chat turn in streaming mode
\* ------------------------------------------------------------------------
Tokens == {"x", "y"}

\* the frames of the wire format: a token payload, the end-of-stream marker,
\* an error payload
TokenFrame(token) == [kind |-> "token", payload |-> token]
EndFrame == [kind |-> "end", payload |-> ""]
ErrorFrame == [kind |-> "error", payload |-> "provider error"]

Terminal(frame) == frame.kind \in {"end", "error"}

\* Generating in streaming mode is entered: the stream to the caller is
\* open and empty
stream_open(t) ==
    /\ CanCall(t)
    /\ \E session_id \in SessionIds :
        /\ sessions[session_id].exists
        /\ req' = [req EXCEPT ![t] =
                     [Idle EXCEPT !.op = "stream_chat_message", !.pc = "streaming",
                                  !.session_id = session_id,
                                  !.user_id = sessions[session_id].user_id]]
    /\ calls' = [calls EXCEPT ![t] = @ + 1]
    /\ UNCHANGED <<experts, episodes, nextExpert, nextEpisode, index, sessions, usage>>
    /\ UNCHANGED pipelineVars

\* the model emits a token and the orchestrator forwards it as it arrives
stream_token(t) ==
    /\ req[t].pc = "streaming"
    /\ Len(req[t].frames) < MaxTokens
    /\ \E token \in Tokens :
        req' = [req EXCEPT ![t].frames = Append(@, TokenFrame(token))]
    /\ UNCHANGED <<experts, episodes, nextExpert, nextEpisode, index, calls, sessions, usage>>
    /\ UNCHANGED pipelineVars

\* the completion is over: the end-of-stream marker goes out and the stream
\* is closed
stream_end(t) ==
    /\ req[t].pc = "streaming"
    /\ req' = [req EXCEPT ![t] = [req[t] EXCEPT !.frames = Append(@, EndFrame),
                                                !.pc = "done", !.status = 200,
                                                !.returned = TRUE]]
    /\ UNCHANGED <<experts, episodes, nextExpert, nextEpisode, index, calls, sessions, usage>>
    /\ UNCHANGED pipelineVars

\* a provider error that closes the stream where it stands
stream_error_truncate(t) ==
    /\ req[t].pc = "streaming"
    /\ req' = [req EXCEPT ![t] = [req[t] EXCEPT !.pc = "done", !.status = 200,
                                                !.error = ErrorFrame.payload]]
    /\ UNCHANGED <<experts, episodes, nextExpert, nextEpisode, index, calls, sessions, usage>>
    /\ UNCHANGED pipelineVars

\* the provider fails mid-stream: the error goes out as the terminal frame
\* and the stream is closed
stream_error(t) ==
    /\ req[t].pc = "streaming"
    /\ req' = [req EXCEPT ![t] = [req[t] EXCEPT !.frames = Append(@, ErrorFrame),
                                                !.pc = "done", !.status = 200,
                                                !.error = ErrorFrame.payload]]
    /\ UNCHANGED <<experts, episodes, nextExpert, nextEpisode, index, calls, sessions, usage>>
    /\ UNCHANGED pipelineVars

\* ------------------------------------------------------------------------
\* URL pipeline: EpisodeManager._process_expert_episodes of models/managers
\* ------------------------------------------------------------------------
\* what product_a_client.process_episode does: a result with success true,
\* one with success false, or an exception
ProductAResults == {"success", "failure", "raise"}

\* db_service.update_episode(episode_id, processing_status=...): the row
\* with the new status, or the table as it was when the write fails (the
\* error is logged and None returned)
url_update_episode(rows, episode_id, processing_status, ok) ==
    IF ok /\ rows[episode_id].exists
    THEN [rows EXCEPT ![episode_id].processing_status = processing_status]
    ELSE rows

\* db_service.update_expert(expert_id, processing_status=...)
url_update_expert(row, processing_status, ok) ==
    IF ok /\ row.exists THEN [row EXCEPT !.processing_status = processing_status] ELSE row

\* process_episode_with_product_a: the episode table afterwards and the
\* value returned
process_episode_with_product_a(rows, episode_id, fault, ok_processing, result, ok_status) ==
    LET db_episode == IF fault THEN NoUrlEpisode ELSE rows[episode_id]
        processing == url_update_episode(rows, episode_id, "processing", ok_processing)
    IN  IF ~db_episode.exists THEN [rows |-> rows, returned |-> FALSE]
        ELSE IF result = "success"
        THEN [rows |-> url_update_episode(processing, episode_id, "completed", ok_status),
              returned |-> TRUE]
        ELSE [rows |-> url_update_episode(processing, episode_id, "failed", ok_status),
              returned |-> FALSE]

\* the vectors PineconeManager.store_episode_content prepares: the summary
\* and the transcript of an episode make one chunk
ManagerVectors(episode_id, namespace) ==
    {[ns |-> namespace, id |-> VectorId(episode_id, 0), episode_id |-> episode_id,
      episode_title |-> <<"t">>, chunk_index |-> 0, text |-> <<"Summary: ">>]}

\* a store that does not look at the processing status
store_episode_in_pinecone_unchecked(idx, rows, episode_id, namespace, fault, ok) ==
    LET db_episode == IF fault THEN NoUrlEpisode ELSE rows[episode_id]
    IN  IF ~db_episode.exists THEN [index |-> idx, returned |-> FALSE]
        ELSE IF ok THEN [index |-> upsert(idx, ManagerVectors(episode_id, namespace)),
                         returned |-> TRUE]
        ELSE [index |-> idx, returned |-> FALSE]

\* store_episode_in_pinecone: the index afterwards and the value returned
store_episode_in_pinecone(idx, rows, episode_id, namespace, fault, ok) ==
    LET db_episode == IF fault THEN NoUrlEpisode ELSE rows[episode_id]
    IN  IF ~db_episode.exists \/ db_episode.processing_status # "completed"
        THEN [index |-> idx, returned |-> FALSE]
        ELSE IF ok THEN [index |-> upsert(idx, ManagerVectors(episode_id, namespace)),
                         returned |-> TRUE]
        ELSE [index |-> idx, returned |-> FALSE]

\* the step after an episode is done with: the next episode, or the end
NextEpisodeStep(r) ==
    IF r.k < Len(r.episode_ids)
    THEN [r EXCEPT !.k = @ + 1, !.pc = "pe_process"]
    ELSE [r EXCEPT !.pc = "pe_finish"]

\* create_expert or update_expert(add_episodes) makes a pending row for each
\* URL it can and calls _process_expert_episodes with the ids of these rows:
\* db_service.get_expert_by_id, then the status 'processing'
process_expert_episodes_start(t) ==
    /\ CanCall(t)
    /\ url_expert.exists
    /\ LET rows == Cardinality({e \in UrlEpisodeIds : url_episodes[e].exists})
       IN  \E n \in 0..(MaxUrls - rows), fault \in BOOLEAN, ok \in BOOLEAN :
            LET episode_ids == [i \in 1..n |-> rows + i]
                r == [Idle EXCEPT !.op = "_process_expert_episodes",
                                  !.episode_ids = episode_ids,
                                  !.ns = url_expert.pinecone_namespace]
            IN  /\ url_episodes' = [e \in UrlEpisodeIds |->
                                      IF e \in (rows + 1)..(rows + n)
                                      THEN [exists |-> TRUE, processing_status |-> "pending"]
                                      ELSE url_episodes[e]]
                /\ IF fault
                   THEN /\ req' = [req EXCEPT ![t] =
                                     [Idle EXCEPT !.op = "_process_expert_episodes",
                                                  !.pc = "done", !.failed = TRUE]]
                        /\ UNCHANGED url_expert
                   ELSE /\ url_expert' = url_update_expert(url_expert, "processing", ok)
                        /\ req' = [req EXCEPT ![t] =
                                     IF episode_ids = <<>> THEN [r EXCEPT !.pc = "pe_finish"]
                                     ELSE [r EXCEPT !.k = 1, !.pc = "pe_process"]]
    /\ calls' = [calls EXCEPT ![t] = @ + 1]
    /\ UNCHANGED <<experts, episodes, nextExpert, nextEpisode, index, sessions, usage>>

\* if self.process_episode_with_product_a(episode_id)
process_expert_episodes_process(t) ==
    /\ req[t].pc = "pe_process"
    /\ \E result \in ProductAResults, ok_processing \in BOOLEAN, ok_status \in BOOLEAN :
       \E fault \in BOOLEAN :
        LET episode_id == req[t].episode_ids[req[t].k]
            done == process_episode_with_product_a(url_episodes, episode_id, fault,
                                                   ok_processing, result, ok_status)
            r == [req[t] EXCEPT !.episode_id = episode_id,
                                !.is_processed = Flag(done.returned),
                                !.is_stored = "unset"]
        IN  /\ url_episodes' = done.rows
            /\ req' = [req EXCEPT ![t] = IF done.returned THEN [r EXCEPT !.pc = "pe_store"]
                                         ELSE NextEpisodeStep(r)]
    /\ UNCHANGED <<experts, episodes, nextExpert, nextEpisode, index, calls, sessions, usage,
                   url_expert>>

\* if self.store_episode_in_pinecone(episode_id, db_expert.pinecone_namespace):
\* processed_count += 1
process_expert_episodes_store(t) ==
    /\ req[t].pc = "pe_store"
    /\ \E fault \in BOOLEAN, ok \in BOOLEAN :
        LET done == store_episode_in_pinecone(index, url_episodes, req[t].episode_id,
                                              req[t].ns, fault, ok)
            r == [req[t] EXCEPT !.is_stored = Flag(done.returned),
                                !.processed_count = IF done.returned THEN @ + 1 ELSE @]
        IN  /\ index' = done.index
            /\ req' = [req EXCEPT ![t] = NextEpisodeStep(r)]
    /\ UNCHANGED <<experts, episodes, nextExpert, nextEpisode, calls, sessions, usage,
                   url_expert, url_episodes>>

\* the status the expert is given at the end
FinalStatus(processed_count, episode_ids) ==
    IF processed_count = Len(episode_ids) THEN "completed"
    ELSE IF processed_count > 0 THEN "partially_completed"
    ELSE "failed"

\* # Update expert status
process_expert_episodes_finish(t) ==
    /\ req[t].pc = "pe_finish"
    /\ \E ok \in BOOLEAN :
        url_expert' = url_update_expert(url_expert,
                          FinalStatus(req[t].processed_count, req[t].episode_ids), ok)
    /\ req' = [req EXCEPT ![t] = [req[t] EXCEPT !.pc = "done", !.returned = TRUE]]
    /\ UNCHANGED <<experts, episodes, nextExpert, nextEpisode, index, calls, sessions, usage,
                   url_episodes>>

\* ------------------------------------------------------------------------
\* Specification
\* ------------------------------------------------------------------------
Init ==
    /\ experts = [x \in ExpertIds |-> NoExpert]
    /\ episodes = [e \in EpisodeIds |-> NoEpisode]
    /\ nextExpert = 1
    /\ nextEpisode = 1
    /\ index = {}
    /\ req = [t \in Threads |-> Idle]
    /\ calls = [t \in Threads |-> 0]
    /\ sessions = [s \in SessionIds |-> NoSession]
    /\ usage = <<>>
    /\ url_expert = NoUrlExpert
    /\ url_episodes = [e \in UrlEpisodeIds |-> NoUrlEpisode]

Step(t) ==
    \/ create_episode_validate(t)
    \/ create_episode_db(t)
    \/ create_episode_store(t)
    \/ update_episode_validate(t)
    \/ update_episode_db(t)
    \/ pinecone_delete_episode_query(t)
    \/ pinecone_delete_episode_delete(t)
    \/ update_episode_store(t)
    \/ delete_episode_check(t)
    \/ delete_episode_db(t)
    \/ create_expert_with_content_db(t)
    \/ create_expert_with_content_episode(t)
    \/ create_expert_with_content_store(t)
    \/ delete_expert(t)
    \/ update_expert(t)

\* requests served one at a time
Next == Step(1)

Spec == Init /\ [][Next]_vars

\* the steps of the episode requests of EpisodeManager
EpisodeStep(t) ==
    \/ create_episode_validate(t)
    \/ create_episode_db(t)
    \/ create_episode_store(t)
    \/ update_episode_validate(t)
    \/ update_episode_db(t)
    \/ pinecone_delete_episode_query(t)
    \/ pinecone_delete_episode_delete(t)
    \/ update_episode_store(t)
    \/ delete_episode_check(t)
    \/ delete_episode_db(t)

\* the stores after create_expert_with_content has returned an expert with
\* one episode, row and vectors in place
InitStores ==
    \E expert_name \in Names, episode_data \in ValidEpisodes :
        LET db_expert == [exists |-> TRUE, name |-> expert_name, user_id |-> "admin"]
            db_episode == [exists |-> TRUE, id |-> 1, expert_id |-> 1,
                           title |-> episode_data.title, content |-> episode_data.content]
        IN  /\ experts = [x \in ExpertIds |-> IF x = 1 THEN db_expert ELSE NoExpert]
            /\ episodes = [e \in EpisodeIds |-> IF e = 1 THEN db_episode ELSE NoEpisode]
            /\ nextExpert = 2
            /\ nextEpisode = 2
            /\ index = Vectors(db_episode, Namespace(expert_name))
            /\ req = [t \in Threads |-> Idle]
            /\ calls = [t \in Threads |-> 0]
            /\ url_expert = NoUrlExpert
            /\ url_episodes = [e \in UrlEpisodeIds |-> NoUrlEpisode]

\* the same with no chat session started
InitStored ==
    /\ InitStores
    /\ sessions = [s \in SessionIds |-> NoSession]
    /\ usage = <<>>

\* the methods of PineconeService called one after the other on an index
\* that holds one episode
NextService ==
    \/ call_store_episode_content(1)
    \/ call_delete_namespace(1)
    \/ call_query_knowledge(1)

SpecService == InitStored /\ [][NextService]_vars

\* app.run(threaded=True): every request runs in a thread of its own, and
\* nothing in the managers or the services takes a lock, so the steps of
\* episode requests in flight interleave freely
NextConc == \E t \in Threads : EpisodeStep(t)

SpecConc == InitStored /\ [][NextConc]_vars

\* the sessions start_expert_chat has opened: one of the seeded user with
\* the expert, and maybe others of another user with an expert of theirs
\* that holds no episode, each with its usage row
InitChat ==
    /\ InitStores
    /\ \E others \in SUBSET (SessionIds \ {1}) :
        /\ sessions = [s \in SessionIds |->
                         IF s = 1 THEN [exists |-> TRUE, user_id |-> "admin", expert_id |-> 1,
                                        messages |-> <<>>]
                         ELSE IF s \in others
                         THEN [exists |-> TRUE, user_id |-> OtherUser, expert_id |-> 0,
                               messages |-> <<>>]
                         ELSE NoSession]
        /\ usage = SelectSeq([s \in SessionIds |->
                                [user_id |-> IF s = 1 THEN "admin" ELSE OtherUser,
                                 action_type |-> "expert_chat_start", session_id |-> s]],
                             LAMBDA u : u.session_id = 1 \/ u.session_id \in others)

\* chat turns, one request at a time
NextChat ==
    \/ send_chat_message_validate(1)
    \/ send_chat_message_user(1)
    \/ send_chat_message_generate(1)
    \/ send_chat_message_assistant(1)
    \/ send_chat_message_log(1)

SpecChat == InitChat /\ [][NextChat]_vars

\* chat turns in streaming mode, one request at a time
NextStream ==
    \/ stream_open(1)
    \/ stream_token(1)
    \/ stream_end(1)
    \/ stream_error(1)

SpecStream == InitChat /\ [][NextStream]_vars

\* EpisodeManager.create_expert has made the expert row, with its namespace
InitPipeline ==
    /\ experts = [x \in ExpertIds |-> NoExpert]
    /\ episodes = [e \in EpisodeIds |-> NoEpisode]
    /\ nextExpert = 1
    /\ nextEpisode = 1
    /\ index = {}
    /\ req = [t \in Threads |-> Idle]
    /\ calls = [t \in Threads |-> 0]
    /\ sessions = [s \in SessionIds |-> NoSession]
    /\ usage = <<>>
    /\ url_expert = [exists |-> TRUE, pinecone_namespace |-> <<"expert_", 1>>,
                     processing_status |-> "pending"]
    /\ url_episodes = [e \in UrlEpisodeIds |-> NoUrlEpisode]

NextPipeline ==
    \/ process_expert_episodes_start(1)
    \/ process_expert_episodes_process(1)
    \/ process_expert_episodes_store(1)
    \/ process_expert_episodes_finish(1)

SpecPipeline == InitPipeline /\ [][NextPipeline]_vars





\* ------------------------------------------------------------------------
\* Properties
\* ------------------------------------------------------------------------
Returned(t, op) == req[t].op = op /\ req[t].pc = "done"

NumChunks(content) == Len(split_text(FullContent(content)))

\* C1: after update_episode reports success for an episode whose previous
\* content gave N chunks and whose new content gives M < N chunks, the owning
\* expert's namespace holds no vector with id {episode_id}_chunk_k, k in M..N-1
C1_NoStaleChunks ==
    \A t \in Threads :
        (Returned(t, "update_episode") /\ req[t].status = 200 /\ req[t].pre_row.exists) =>
            LET r == req[t]
                N == NumChunks(r.pre_row.content)
                M == NumChunks(r.data.content)
            IN  \A k \in M..(N - 1) :
                    ~\E v \in index : /\ v.ns = OwnerNamespace(episodes[r.episode_id])
                                      /\ v.id = VectorId(r.episode_id, k)

\* C2: every vector stored for an episode that has a row lies in the
\* namespace derived from the name of the expert that owns the episode
C2_VectorsInOwnerNamespace ==
    \A v \in index :
        episodes[v.episode_id].exists => v.ns = OwnerNamespace(episodes[v.episode_id])

\* C3: every vector carries the episode_id of an episode row that exists
\* under an expert row that exists
C3_NoChunkOutlivesItsRows ==
    \A v \in index :
        /\ episodes[v.episode_id].exists
        /\ experts[episodes[v.episode_id].expert_id].exists

\* the delete of the vectors of (episode_id, ns) has just returned True
DeleteReturnedTrue(t) ==
    req[t].is_deleted = "true" /\ req[t].pc \in {"ue_store", "de_db"}

\* C4: after PineconeService.delete_episode returned True for (episode_id,
\* namespace), the namespace has no vector with that episode_id, however many
\* chunks the episode had
C4_DeleteThenQueryEmpty ==
    \A t \in Threads :
        DeleteReturnedTrue(t) => Matching(index, req[t].ns, req[t].episode_id) = {}

\* C5: after delete_expert reports success, no episode of the expert is left
\* in the relational store and the expert's namespace holds no vector
C5_DeleteExpertCascades ==
    \A t \in Threads :
        (Returned(t, "delete_expert") /\ req[t].returned) =>
            /\ \A e \in EpisodeIds : ~(episodes[e].exists /\ episodes[e].expert_id = req[t].expert_id)
            /\ ~\E v \in index : v.ns = Namespace(req[t].expert.name)

\* C6: when update_episode returns for an episode whose row and vectors
\* agreed before the call, either the row and the vectors both show the new
\* title and content, or the row and the index are both as they were
C6_UpdateAtomic ==
    \A t \in Threads :
        (Returned(t, "update_episode") /\ req[t].pre_synced) =>
            LET r == req[t]
                row == episodes[r.episode_id]
            IN  \/ /\ row.title = r.data.title /\ row.content = r.data.content
                   /\ Synced(index, row)
                \/ /\ row = r.pre_row
                   /\ Synced(index, row)

\* C7: create_episode reports 201 only when the row was created and its
\* chunks are in the vector store
C7_CreateReportsStoreFailure ==
    \A t \in Threads :
        (Returned(t, "create_episode") /\ req[t].status = 201) =>
            /\ episodes[req[t].episode_id].exists
            /\ Vectors(req[t].episode, Namespace(req[t].expert.name)) \subseteq index

\* C8: create_expert_with_content returns the expert only when every
\* supplied episode has a row and its content is in the vector store
C8_CreateExpertReportsFailures ==
    \A t \in Threads :
        (Returned(t, "create_expert_with_content") /\ req[t].returned) =>
            \A i \in 1..Len(req[t].eps) :
                LET db_episode == req[t].stored_episodes[i]
                IN  /\ db_episode.exists
                    /\ db_episode.title = req[t].eps[i].title
                    /\ db_episode.content = req[t].eps[i].content
                    /\ Vectors(db_episode, Namespace(req[t].name)) \subseteq index

\* C9: update_episode returns 200 only if the relational update, the delete
\* of the old vectors and the store of the new ones all reported success; a
\* failed vector step after a successful relational update gives a 500 that
\* names the step
C9_UpdateReportsVectorFailure ==
    \A t \in Threads :
        Returned(t, "update_episode") =>
            LET r == req[t]
            IN  /\ r.status = 200 =>
                    /\ r.episode.exists
                    /\ episodes[r.episode_id].content = r.data.content
                    /\ r.is_deleted = "true"
                    /\ r.is_stored = "true"
                    /\ Vectors(r.episode, Namespace(r.expert.name)) \subseteq index
                /\ (r.episode.exists /\ r.is_deleted = "false") =>
                    /\ r.status = 500
                    /\ r.error = "Failed to delete old episode content from Pinecone"
                /\ (r.episode.exists /\ r.is_stored = "false") =>
                    /\ r.status = 500
                    /\ r.error = "Failed to store updated episode content in Pinecone"

C9_Witness ==
    \E t \in Threads :
        /\ Returned(t, "update_episode")
        /\ req[t].episode.exists
        /\ req[t].is_deleted = "true"
        /\ req[t].is_stored = "false"
        /\ req[t].status = 500

\* thread t runs store_episode_content in this step
StoreStep(t) == req[t].is_stored = "unset" /\ req'[t].is_stored # "unset"

\* C10: within one update_episode call the store step runs only after the
\* delete step has returned True; after a failed delete it never runs
C10_DeleteBeforeStore ==
    [][\A t \in Threads :
          (req[t].op = "update_episode" /\ (StoreStep(t) \/ req[t].pc = "ue_store")) =>
              req[t].is_deleted = "true"]_vars

C10_Witness ==
    \E t \in Threads :
        /\ Returned(t, "update_episode")
        /\ req[t].is_deleted = "true"
        /\ req[t].matches # {}
        /\ req[t].is_stored = "true"

\* the episode requests that write to both stores
Mutating == {"create_episode", "update_episode", "delete_episode"}

\* thread t is between the first and the last vector step of a mutating
\* request: it has queried or deleted the old vectors and has more to do
MidVectorSteps(t) ==
    req[t].op \in Mutating /\ req[t].pc \in {"pc_delete", "ue_store"}

\* thread t takes a step that reads or writes the vector index
VectorStep(t) ==
    /\ req[t].pc \in {"pc_query", "pc_delete", "ue_store", "ce_store"}
    /\ req'[t] # req[t]

\* C11: mutating episode requests against the same namespace are serialized:
\* while one is between its vector delete and upsert steps no other one takes
\* a vector step in that namespace, and once all have returned with success
\* every episode row has exactly the chunks of its content in its owner's
\* namespace and no vector belongs to an episode without a row
C11_WritesSerialized ==
    /\ [][\A t1, t2 \in Threads :
            (/\ t1 # t2
             /\ MidVectorSteps(t1)
             /\ req[t2].op \in Mutating
             /\ Namespace(req[t1].expert.name) = Namespace(req[t2].expert.name))
            => ~VectorStep(t2)]_vars
    /\ [](( \A t \in Threads : /\ req[t].op \in Mutating
                               /\ req[t].pc = "done"
                               /\ req[t].status \in {200, 201} )
           => /\ \A e \in EpisodeIds : episodes[e].exists => Synced(index, episodes[e])
              /\ \A v \in index : episodes[v.episode_id].exists)

\* the messages with which the episode requests turn a request down
RejectionErrors ==
    {"Expert not found", "No data provided", "Episode title is required",
     "Episode content is required", "Episode not found",
     "Failed to update episode in database"}

\* C13: a create_episode, update_episode or delete_episode that turns the
\* request down (expert not found, no data, blank title or content, episode
\* not found) answers with an error status and has changed neither the
\* relational store nor the vector index
C13_RejectionsLeaveStores ==
    [][\A t \in Threads :
          (/\ req'[t] # req[t]
           /\ req'[t].pc = "done"
           /\ req'[t].op \in Mutating
           /\ req'[t].error \in RejectionErrors)
          => /\ req'[t].status \in {400, 404, 500}
             /\ UNCHANGED <<experts, episodes, nextExpert, nextEpisode, index>>]_vars

C13_Witness ==
    \E t \in Threads :
        /\ Returned(t, "update_episode")
        /\ req[t].error = "Episode content is required"
        /\ req[t].status = 400
        /\ index # {}
        /\ \E e \in EpisodeIds : episodes[e].exists

\* C14: delete_episode deletes the row only after the vector deletion has
\* returned True, and answers 200 only when the vector deletion returned
\* True and the row is gone
C14_DeleteEpisodeOrder ==
    /\ [][\A t \in Threads :
            (/\ req[t].op = "delete_episode"
             /\ req[t].pc # "done"
             /\ episodes[req[t].episode_id].exists
             /\ ~episodes'[req[t].episode_id].exists)
            => req[t].is_deleted = "true"]_vars
    /\ [](\A t \in Threads :
            (Returned(t, "delete_episode") /\ req[t].status = 200) =>
                /\ req[t].is_deleted = "true"
                /\ ~episodes[req[t].episode_id].exists)

C14_Witness ==
    \E t \in Threads :
        /\ Returned(t, "delete_episode")
        /\ req[t].status = 200
        /\ req[t].matches # {}
        /\ ~episodes[req[t].episode_id].exists

\* thread t renames an expert in this step
Renames(t) ==
    /\ calls'[t] # calls[t]
    /\ req'[t].op = "update_expert"
    /\ req'[t].returned
    /\ req'[t].name # req'[t].expert.name

\* C18 as stated: after a rename the vectors under the namespace of the old
\* name are still there, and the namespace of the new name does not contain
\* them
C18_RenameOrphansVectors ==
    [][\A t \in Threads :
          Renames(t) =>
              \A v \in index :
                  v.ns = Namespace(req'[t].expert.name) =>
                      v \in index' /\ v.ns # Namespace(req'[t].name)]_vars

\* C18 amended: a rename leaves the index as it was, so the vectors under
\* the namespace of the old name stay there; when the new name gives a
\* different namespace, that namespace does not contain them
C18_RenameLeavesVectors ==
    [][\A t \in Threads :
          Renames(t) =>
              /\ index' = index
              /\ \A v \in index :
                    v.ns = Namespace(req'[t].expert.name) =>
                        /\ v \in index'
                        /\ Namespace(req'[t].name) # Namespace(req'[t].expert.name)
                             => v.ns # Namespace(req'[t].name)]_vars

C18_Witness ==
    \E t \in Threads :
        /\ Returned(t, "update_expert")
        /\ req[t].returned
        /\ Namespace(req[t].name) # Namespace(req[t].expert.name)
        /\ \E v \in index : v.ns = Namespace(req[t].expert.name)
        /\ ~\E v \in index : v.ns = Namespace(req[t].name)

\* thread t makes a call to PineconeService in this step
ServiceCall(t, op) == calls'[t] # calls[t] /\ req'[t].op = op

\* C12: storing an episode again, unchanged and under the same expert name,
\* leaves the index as the first store left it, and no id of a namespace
\* ever holds more than one vector
C12_StoreIdempotent ==
    /\ []OneVectorPerId(index)
    /\ [][\A t \in Threads :
            (/\ ServiceCall(t, "store_episode_content")
             /\ req'[t].is_stored = "true"
             /\ req'[t].pre_synced)
            => index' = index]_vars

C12_Witness ==
    \E t \in Threads :
        /\ Returned(t, "store_episode_content")
        /\ req[t].is_stored = "true"
        /\ req[t].pre_synced
        /\ Cardinality(index) > Cardinality(Vectors(req[t].episode, Namespace(req[t].name)))

\* C15: when query_knowledge is asked, in the namespace where an episode's
\* chunks were stored, with a query that matches the episode, and neither the
\* embedding nor the index fails, the result has a chunk of that episode
C15_StoreThenQueryFinds ==
    \A t \in Threads :
        (/\ Returned(t, "query_knowledge")
         /\ ~req[t].failed
         /\ \E v \in index : v.ns = req[t].ns /\ v.episode_id = req[t].query)
        => \E c \in req[t].result : c.episode_id = req[t].query

\* C16: query_knowledge never raises, and when the embedding call or the
\* index query fails it returns the empty list
C16_QueryNeverRaises ==
    \A t \in Threads :
        Returned(t, "query_knowledge") =>
            /\ ~req[t].raised
            /\ req[t].returned
            /\ req[t].failed => req[t].result = {}

C16_Witness ==
    \E t \in Threads :
        /\ Returned(t, "query_knowledge")
        /\ req[t].failed
        /\ \E v \in index : v.ns = req[t].ns /\ v.episode_id = req[t].query

\* C19: a delete_namespace that returns True leaves no vector in the
\* namespace store_episode_content derives from the same name, and every
\* vector of every other namespace where it was
C19_DeleteNamespaceFrame ==
    [][\A t \in Threads :
          (ServiceCall(t, "delete_namespace") /\ req'[t].is_deleted = "true") =>
              /\ ~\E v \in index' : v.ns = Namespace(req'[t].name)
              /\ \A v \in index : v.ns # Namespace(req'[t].name) => v \in index'
              /\ index' \subseteq index]_vars

C19_Witness ==
    \E t \in Threads :
        /\ Returned(t, "delete_namespace")
        /\ req[t].is_deleted = "true"
        /\ req[t].name # req[t].ns
        /\ req[t].matches # {}
        /\ index # {}

ChatTurnValid(r) ==
    /\ r.session_id \in SessionIds
    /\ sessions[r.session_id].exists
    /\ sessions[r.session_id].user_id = r.user_id
    /\ r.message # <<>>

\* C20: a chat turn fails fast on invalid input: send_chat_message adds a
\* message, generates a response or logs usage only if the session exists,
\* belongs to the caller and the message is not empty; a turn answered with
\* an error for its input has left the sessions and the usage log alone.
C20_ChatFailsFast ==
    [][\A t \in Threads :
        /\ req[t].op = "send_chat_message" /\ req[t].pc # "done"
           /\ (sessions' # sessions \/ usage' # usage \/ req'[t].response # req[t].response)
           => ChatTurnValid(req[t])
        /\ req'[t].op = "send_chat_message" /\ req'[t].status \in {400, 404}
           /\ req'[t] # req[t]
           => sessions' = sessions /\ usage' = usage]_vars

\* a step that puts one more message of the role at the end of session s
Appends(s, role) ==
    /\ Len(sessions'[s].messages) = Len(sessions[s].messages) + 1
    /\ sessions'[s].messages[Len(sessions'[s].messages)].role = role

C22_OneTerminalFrame ==
    /\ [](\A t \in Threads :
            req[t].op = "stream_chat_message" =>
                LET frames == req[t].frames
                IN  /\ \A i \in 1..Len(frames) :
                            Terminal(frames[i]) <=> (req[t].pc = "done" /\ i = Len(frames))
                    /\ req[t].pc = "done" => frames # <<>>)
    /\ [][\A t \in Threads :
            req[t].op = "stream_chat_message" /\ req[t].pc = "done"
            /\ calls'[t] = calls[t] => req'[t].frames = req[t].frames]_vars

\* a stream the provider broke after a token: closed, with the error event
\* after the token
C22_Witness ==
    \E t \in Threads :
        /\ req[t].op = "stream_chat_message" /\ req[t].pc = "done"
        /\ Len(req[t].frames) >= 2
        /\ req[t].frames[1].kind = "token"
        /\ req[t].frames[Len(req[t].frames)] = ErrorFrame

\* ---------------- vector ids ----------------
\* C23: every vector in the index has the id '{episode_id}_chunk_{i}' of the
\* episode_id and chunk_index in its metadata, and a store_episode_content
\* that returns True writes, for an episode of n chunks, vectors with the
\* indices 0..n-1 and no other: every vector it adds or changes is one of
\* them, and each of them is in the namespace afterwards.
C23_VectorIds ==
    /\ [](\A v \in index : v.id = <<v.episode_id, "_chunk_", v.chunk_index>>)
    /\ [][\A t \in Threads :
            ServiceCall(t, "store_episode_content") /\ req'[t].is_stored = "true" =>
                LET episode == req'[t].episode
                    ns == Namespace(req'[t].name)
                    n == NumChunks(episode.content)
                IN  /\ \A v \in index' \ index :
                        v.ns = ns /\ v.episode_id = episode.id /\ v.chunk_index \in 0..(n - 1)
                    /\ \A i \in 0..(n - 1) :
                        \E v \in index' :
                            /\ v.ns = ns /\ v.id = <<episode.id, "_chunk_", i>>
                            /\ v.episode_id = episode.id /\ v.chunk_index = i
                            /\ v.episode_title = episode.title]_vars

\* a store of an episode of two chunks that were not in the index before
C23_Witness ==
    \E t \in Threads :
        /\ req[t].op = "store_episode_content" /\ req[t].is_stored = "true"
        /\ ~req[t].pre_synced
        /\ NumChunks(req[t].episode.content) = 2
        /\ \A i \in 0..1 :
            \E v \in index : v.ns = Namespace(req[t].name)
                             /\ v.id = <<req[t].episode.id, "_chunk_", i>>

\* C24: store_episode_content never partially succeeds: a call that returns
\* False has left the index as it was, and after a call that returns True
\* every chunk of the episode is in the namespace.
C24_StoreAllOrNothing ==
    [][\A t \in Threads :
        ServiceCall(t, "store_episode_content") =>
            /\ req'[t].is_stored = "false" => index' = index
            /\ req'[t].is_stored = "true" =>
                LET chunks == split_text(FullContent(req'[t].episode.content))
                IN  \A i \in 1..Len(chunks) :
                        \E v \in index' :
                            /\ v.ns = Namespace(req'[t].name)
                            /\ v.episode_id = req'[t].episode.id
                            /\ v.chunk_index = i - 1 /\ v.text = chunks[i]]_vars

\* a store that failed on an index emptied before, which is still empty
C24_Witness ==
    \E t \in Threads :
        /\ req[t].op = "store_episode_content" /\ req[t].is_stored = "false"
        /\ req[t].returned
        /\ index = {}

\* ---------------- ownership ----------------
\* C25: update_episode and delete_episode change an episode row or its
\* vectors only when the episode belongs to the expert_id they were called
\* with: a step of a call that names an episode of another expert leaves the
\* episodes and the index as they were.
C25_OnlyOwnEpisodes ==
    [][\A t \in Threads :
        /\ req[t].op \in {"update_episode", "delete_episode"} /\ req[t].pc # "done"
        /\ req[t].episode_id \in EpisodeIds /\ req[t].expert_id \in ExpertIds
        /\ episodes[req[t].episode_id].exists /\ experts[req[t].expert_id].exists
        /\ episodes[req[t].episode_id].expert_id # req[t].expert_id
        => episodes' = episodes /\ index' = index]_vars

\* C26: distinct experts have distinct derived namespaces, and no namespace
\* holds chunks of episodes owned by two different experts.
C26_NamespacesDisjoint ==
    /\ \A x, y \in ExpertIds :
        experts[x].exists /\ experts[y].exists /\ x # y =>
            Namespace(experts[x].name) # Namespace(experts[y].name)
    /\ \A v, w \in index :
        /\ v.ns = w.ns
        /\ episodes[v.episode_id].exists /\ episodes[w.episode_id].exists
        => episodes[v.episode_id].expert_id = episodes[w.episode_id].expert_id

\* ---------------- URL pipeline ----------------
\* the episode has been processed and its content is in the namespace
ProcessedAndStored(e, ns) ==
    /\ url_episodes[e].processing_status = "completed"
    /\ \E v \in index : v.ns = ns /\ v.episode_id = e

\* C27: when _process_expert_episodes has run to its end, the expert's
\* processing_status is 'completed' if and only if every listed episode was
\* processed and stored, 'partially_completed' if and only if some but not
\* all were, and 'failed' if and only if none was.
C27_FinalStatus ==
    \A t \in Threads :
        req[t].op = "_process_expert_episodes" /\ req[t].pc = "done" /\ req[t].returned =>
            LET ids == req[t].episode_ids
                all == \A i \in 1..Len(ids) : ProcessedAndStored(ids[i], req[t].ns)
                none == \A i \in 1..Len(ids) : ~ProcessedAndStored(ids[i], req[t].ns)
            IN  /\ url_expert.processing_status = "completed" <=> all
                /\ url_expert.processing_status = "partially_completed" <=> (~all /\ ~none)
                /\ url_expert.processing_status = "failed" <=> none

\* C28: when process_episode_with_product_a returns for an existing episode,
\* the episode's processing_status is 'completed' if it returned True and
\* 'failed' if it returned False, and so never 'processing'.
C28_StatusAfterProcess ==
    [][\A t \in Threads :
        req[t].pc = "pe_process" /\ req'[t] # req[t] =>
            LET e == req[t].episode_ids[req[t].k]
            IN  url_episodes'[e].processing_status =
                    IF req'[t].is_processed = "true" THEN "completed" ELSE "failed"]_vars

\* C29: in the URL pipeline there are vectors for an episode only if its
\* processing_status is 'completed', and store_episode_in_pinecone called
\* for an episode that is missing, pending, processing or failed returns
\* False and leaves the index as it was.
C29_VectorsOnlyWhenCompleted ==
    /\ [](\A v \in index :
            v.episode_id \in UrlEpisodeIds
            /\ url_episodes[v.episode_id].processing_status = "completed")
    /\ [][\A t \in Threads :
            /\ req[t].pc = "pe_store"
            /\ url_episodes[req[t].episode_id].processing_status # "completed"
            => index' = index /\ req'[t].is_stored = "false"]_vars

\* a store asked for an episode that processing left at 'processing': it
\* returned False and the episode has no vector
C29_Witness ==
    \E t \in Threads :
        /\ req[t].op = "_process_expert_episodes"
        /\ req[t].is_processed = "true" /\ req[t].is_stored = "false"
        /\ url_episodes[req[t].episode_id].processing_status = "processing"
        /\ ~\E v \in index : v.episode_id = req[t].episode_id

\* ---------------- message length ----------------
\* C30: send_chat_message rejects every message longer than 2000 characters
\* with 400 'Message too long' and adds no message to the session, and a
\* message that is accepted is stored with its full text.
C30_LongMessagesRejected ==
    [][\A t \in Threads :
        /\ req'[t].op = "send_chat_message" /\ req[t].op # "send_chat_message"
           /\ Len(req'[t].raw) * MessageScale > MESSAGE_MAX_LENGTH
           => /\ req'[t].pc = "done" /\ req'[t].status = 400
              /\ req'[t].error = "Message too long"
              /\ sessions' = sessions
        /\ \A s \in SessionIds :
            req[t].pc = "chat_user" /\ req[t].session_id = s /\ Appends(s, "user") =>
                sessions'[s].messages[Len(sessions'[s].messages)].content = Strip(req[t].raw)]_vars

====
